---- MODULE Spec2Model ----
(***************************************************************************)
(* Episodic few-shot batch sampling of ultimate-utils:                     *)
(*   torch_uutils/dataloaders/old/episodic_dataloader.py                   *)
(*     EpisodicSampler, MetaSet_Dataset, ClassDataset and the two          *)
(*     support/query splitting functions,                                  *)
(*   uutils/__init__.py  seed_everything.                                  *)
(*                                                                         *)
(* SpecSampler  : an EpisodicSampler object, the generator objects made    *)
(*                by iter(sampler), and the global random generator.       *)
(* SpecConsumer : the same sampler with consumers that may drop a          *)
(*                generator object before it is exhausted.                 *)
(* SpecLoader   : prepare_data_for_few_shot_learning on a directory: the   *)
(*                MetaSet_Dataset, the loader that pulls index groups from *)
(*                the sampler, fetches one batch per class, collates them  *)
(*                and splits the episode into support and query.           *)
(* SpecDataset  : a constructed MetaSet_Dataset accessed directly, by      *)
(*                dataset[idx] calls that may overlap.                     *)
(* SpecSplits   : uutils/torch_uu/dataset/delaunay_uu.py                   *)
(*                create_your_splits on a directory of folders.            *)
(* SpecDelauny  : get_delauny_dataset_splits of the same file.             *)
(* SpecJson     : uutils/__init__.py  to_json.                             *)
(* SpecPickable : uutils/__init__.py  make_args_pickable.                  *)
(* SpecJobids   : uutils/__init__.py  load_cluster_jobids_to.              *)
(* SpecLog      : uutils/logging_uu/wandb_logging/supervised_learning.py   *)
(*                log_train_val_stats called at the steps 0, 1, 2, ...     *)
(***************************************************************************)
EXTENDS Integers, Sequences, FiniteSets, TLC

\* ------------------------------------------------------------------ bounds
MaxTotal == 3        \* largest total_classes tried
MaxEpisodes == 2     \* largest n_episode tried
MaxIters == 2        \* generator objects created from one sampler
MaxSeed == 0         \* seeds 0..MaxSeed are passed to seed_everything
RngMod == 1009       \* size of the modelled generator state space
MaxFiles == 1        \* most files in one class directory
MaxShot == 4         \* largest k_shot tried
MaxEval == 4         \* largest k_eval tried
MaxLoaderSeed == 5   \* seeds 0..MaxLoaderSeed start the loop over the loader
MaxCalls == 2        \* dataset[idx] calls that may be in progress together
MaxTabled == 9       \* permutation sizes 0..MaxTabled are computed once and kept
FixedFolders == 49   \* folders that are always in the directory to split
MaxExtra == 6        \* further folders that may or may not be there

VARIABLES
    total_classes,   \* EpisodicSampler.total_classes
    n_classes,       \* EpisodicSampler.n_classes
    n_episode,       \* EpisodicSampler.n_episode
    gen,             \* state of torch's global random generator
    fresh,           \* the seed gen was last set from, -1 once a draw followed
    its,             \* generator objects returned by iter(sampler)
    draws,           \* number of torch.randperm calls made so far
    dir_exists,      \* does the directory root/phase exist
    listing,         \* names of the class directories in root/phase
    nfiles,          \* number of files in each class directory
    k_shot,          \* args.k_shot
    k_eval,          \* args.k_eval
    labels,          \* MetaSet_Dataset.labels
    episode_loader,  \* MetaSet_Dataset.episode_loader
    lpc,             \* where the loop over the meta-set loader stands
    ep,              \* index groups pulled from the batch sampler so far
    group,           \* the index group being materialized
    fetched,         \* what dataset[idx] returned for the group so far
    SQ,              \* the collated episode (SQ_x, SQ_y)
    out,             \* the last (S_x, S_y, Q_x, Q_y) and the policy that made it
    err,             \* the exception that ended the loop, if any
    calls,           \* the dataset[idx] calls made directly, by any worker
    dirnames,        \* create_your_splits: the folders of path_to_all_data
    spc,             \* create_your_splits: where the call stands
    sorted_dirnames, \* create_your_splits: sorted_dirnames
    train,           \* create_your_splits: train
    val,             \* create_your_splits: val
    test,            \* create_your_splits: test
    moved,           \* the calls of move_folders_recursively made so far
    to_json_call,    \* to_json: the argument dic, the value returned, progress
    pickable_call,   \* make_args_pickable: args, pickable_args, progress
    jobids_call,     \* load_cluster_jobids_to: os.environ, the host, args
    log_run,         \* log_train_val_stats: args, the step, the last call
    splits_call      \* get_delauny_dataset_splits: arguments, locals, progress

sampler_vars == <<total_classes, n_classes, n_episode, gen, fresh, its, draws>>
loader_vars == <<dir_exists, listing, nfiles, k_shot, k_eval, labels,
                 episode_loader, lpc, ep, group, fetched, SQ, out, err>>
dataset_vars == <<calls>>
splits_vars == <<dirnames, spc, sorted_dirnames, train, val, test, moved>>
util_vars == <<to_json_call, pickable_call, jobids_call, log_run, splits_call>>
other_vars == <<dataset_vars, splits_vars, util_vars>>
core_vars == <<sampler_vars, loader_vars, dataset_vars, splits_vars>>
vars == <<sampler_vars, loader_vars, other_vars>>

\* ------------------------------------------------- the random generator
\* A seeding that stirs the seed into the state it finds.
manual_seed_mixing(seed, old) == (old + 7 * seed + 1) % RngMod

\* torch.manual_seed(seed): the generator state is a function of the seed alone.
manual_seed(seed, old) == (7 * seed + 1) % RngMod

\* State of the default generator of a process that never seeded it.
default_generator == manual_seed(0, 0)

\* One advance of the generator (a draw consumes generator output).
GenStep(g) == (31 * g + 17) % RngMod

\* The sequence s without its i-th item.
RemoveAt(s, i) == SubSeq(s, 1, i - 1) \o SubSeq(s, i + 1, Len(s))

RECURSIVE Shuffle(_, _)
\* The permutation of the sequence `pool` selected by the number g.
Shuffle(pool, g) ==
    IF pool = <<>> THEN <<>>
    ELSE LET i == (g % Len(pool)) + 1
         IN  <<pool[i]>> \o Shuffle(RemoveAt(pool, i), g \div Len(pool))

\* range(n) as a sequence: 0, 1, ..., n-1 (empty for n <= 0).
Range(n) == [i \in 1..n |-> i - 1]

\* The permutations of the small sizes, computed once for every generator state.
randperm_table ==
    [n \in 0..MaxTabled |-> [g \in 0..(RngMod - 1) |-> Shuffle(Range(n), g)]]

\* torch.randperm(n) on generator state g, for n >= 0.
randperm(n, g) ==
    IF n \in DOMAIN randperm_table /\ g \in DOMAIN randperm_table[n]
    THEN randperm_table[n][g]
    ELSE Shuffle(Range(n), g)

\* A slice that takes one item too many: s[:n+1].
SliceToInclusive(s, n) == SubSeq(s, 1, IF n + 1 < Len(s) THEN n + 1 ELSE Len(s))

\* Python slice s[:n]: the first n items; for negative n all but the last -n.
SliceTo(s, n) ==
    IF n >= 0 THEN SubSeq(s, 1, IF n < Len(s) THEN n ELSE Len(s))
    ELSE SubSeq(s, 1, IF Len(s) + n > 0 THEN Len(s) + n ELSE 0)

\* A slice that starts one item early: s[n-1:].
SliceFromOverlap(s, n) == SubSeq(s, IF n >= 1 THEN n ELSE 1, Len(s))

\* Python slice s[n:] for n >= 0.
SliceFrom(s, n) == SubSeq(s, (IF n < Len(s) THEN n ELSE Len(s)) + 1, Len(s))

\* ------------------------------------------------------ EpisodicSampler
\* EpisodicSampler.__len__
SamplerLen == n_episode

\* n draws from range(total) with replacement.
indices_with_replacement(total, n, g) ==
    IF total <= 0 \/ n <= 0 THEN <<>> ELSE [i \in 1..n |-> (g \div i) % total]

\* The body of one pass of the loop of __iter__: permutation, then slice.
indices_batch_tasks(total, n, g) == SliceTo(randperm(total, g), n)

RECURSIVE SumEpisodes(_, _)
\* Passes made by the generator objects 1..k together.
SumEpisodes(f, k) == IF k = 0 THEN 0 ELSE f[k].episode + SumEpisodes(f, k - 1)

\* A cursor kept on the sampler object and shared by all its generator objects.
episode_of_shared(f, i) == SumEpisodes(f, Len(f))

\* The loop variable `episode` lives in the frame of generator object i: the
\* number of passes that object has made, whatever other objects did.
episode_of(f, i) == f[i].episode

\* A loop that runs one pass too many.
loop_continues_inclusive(f, i) == episode_of(f, i) <= n_episode

\* A loop that tests its bound only after the first pass.
loop_at_least_once(f, i) == episode_of(f, i) = 0 \/ episode_of(f, i) < n_episode

\* `for episode in range(self.n_episode)`: is there another pass for object i?
loop_continues(f, i) == episode_of(f, i) < n_episode

\* A pass that also draws the permutation of the pass after it.
count_randperm_ahead(d) == d + 2

\* torch.randperm is called once in each pass of the loop.
count_randperm(d) == d + 1

\* A generator object that iter(sampler) has not created yet.
NoIter == [pc |-> "none", episode |-> 0, out |-> <<>>, seed |-> -1, alone |-> TRUE]

IterIds == 1..MaxIters

\* Another piece of code used the generator: the runs in progress are no
\* longer the only consumer of the random stream.
Disturb(f, i) ==
    [j \in IterIds |->
        IF j # i /\ f[j].pc = "suspended" /\ f[j].episode > 0
        THEN [f[j] EXCEPT !.alone = FALSE] ELSE f[j]]

\* iter(sampler): a new generator object; no line of __iter__ has run yet.
Iter(i) ==
    /\ its[i].pc = "none"
    /\ \A j \in IterIds : j < i => its[j].pc # "none"
    /\ its' = [its EXCEPT ![i] = [NoIter EXCEPT !.pc = "suspended"]]
    /\ UNCHANGED <<total_classes, n_classes, n_episode, gen, fresh, draws, loader_vars, other_vars>>

\* next(it) when the loop has an episode left and randperm succeeds: yield.
NextYield(i) ==
    /\ its[i].pc = "suspended"
    /\ loop_continues(its, i)
    /\ total_classes >= 0
    /\ its' = [Disturb(its, i) EXCEPT ![i] =
                 [@ EXCEPT !.episode = @ + 1,
                           !.out = Append(@, indices_batch_tasks(total_classes, n_classes, gen)),
                           !.seed = IF its[i].episode = 0 THEN fresh ELSE @]]
    /\ gen' = GenStep(gen)
    /\ fresh' = -1
    /\ draws' = count_randperm(draws)
    /\ UNCHANGED <<total_classes, n_classes, n_episode, loader_vars, other_vars>>

\* next(it) when torch.randperm rejects a negative size: the error leaves the
\* generator object finished.
NextRaise(i) ==
    /\ its[i].pc = "suspended"
    /\ loop_continues(its, i)
    /\ total_classes < 0
    /\ its' = [its EXCEPT ![i].pc = "raised"]
    /\ UNCHANGED <<total_classes, n_classes, n_episode, gen, fresh, draws, loader_vars, other_vars>>

\* next(it) when range(n_episode) is used up: StopIteration.
NextStop(i) ==
    /\ its[i].pc = "suspended"
    /\ ~loop_continues(its, i)
    /\ its' = [its EXCEPT ![i].pc = "done"]
    /\ UNCHANGED <<total_classes, n_classes, n_episode, gen, fresh, draws, loader_vars, other_vars>>

\* The consumer drops a generator object it has not exhausted: close() ends
\* it at the yield it is suspended at; __iter__ has no finally or with block.
Close(i) ==
    /\ its[i].pc = "suspended"
    /\ its' = [its EXCEPT ![i].pc = "closed"]
    /\ UNCHANGED <<total_classes, n_classes, n_episode, gen, fresh, draws, loader_vars, other_vars>>

\* seed_everything(seed): torch.manual_seed(seed) on the global generator.
\* The experiment scripts seed between iterations, not in the middle of one.
seed_everything(seed) ==
    /\ \A j \in IterIds : its[j].pc = "suspended" => its[j].episode = 0
    /\ gen' = manual_seed(seed, gen)
    /\ fresh' = seed
    /\ its' = Disturb(its, 0)
    /\ UNCHANGED <<total_classes, n_classes, n_episode, draws, loader_vars, other_vars>>

\* ------------------------------------------------------ paths and strings
\* A string is a sequence of one-character strings, so that len(s) and s[i]
\* mean what they mean in Python.
CharCode(ch) ==
    CASE ch = "*" -> 42 [] ch = "/" -> 47 [] ch = "a" -> 97 [] ch = "b" -> 98
      [] ch = "c" -> 99 [] ch = "d" -> 100 [] ch = "e" -> 101 [] ch = "f" -> 102
      [] ch = "g" -> 103 [] ch = "h" -> 104
      [] ch = "l" -> 108 [] ch = "v" -> 118 [] ch = "x" -> 120

RECURSIVE StrLess(_, _)
\* s < t for Python strings.
StrLess(s, t) ==
    IF t = <<>> THEN FALSE
    ELSE IF s = <<>> THEN TRUE
    ELSE IF s[1] # t[1] THEN CharCode(s[1]) < CharCode(t[1])
    ELSE StrLess(Tail(s), Tail(t))

RECURSIVE sorted_descending(_)
\* The names in descending order.
sorted_descending(S) ==
    IF S = {} THEN <<>>
    ELSE LET m == CHOOSE x \in S : \A y \in S \ {x} : StrLess(y, x)
         IN  <<m>> \o sorted_descending(S \ {m})

RECURSIVE sorted(_)
\* sorted(names) for a set of distinct strings.
sorted(S) ==
    IF S = {} THEN <<>>
    ELSE LET m == CHOOSE x \in S : \A y \in S \ {x} : StrLess(x, y)
         IN  <<m>> \o sorted(S \ {m})

\* os.path.join(a, b)
path_join(a, b) ==
    IF b # <<>> /\ b[1] = "/" THEN b
    ELSE IF a = <<>> \/ a[Len(a)] = "/" THEN a \o b
    ELSE a \o <<"/">> \o b

\* The class directory names that occur.
Names == {<<"a">>, <<"a", "b">>, <<"b">>}

\* args.data_root and phase as passed to MetaSet_Dataset.
data_root == <<>>
phase == <<"v", "a", "l">>

\* root = os.path.join(root, phase)
root == path_join(data_root, phase)

\* The j-th file of a class directory is called "x" * j.
FileName(j) == [t \in 1..j |-> "x"]

\* path_to_Dt = os.path.join(root, label, '*')
path_to_Dt(label) == path_join(path_join(root, label), <<"*">>)

\* glob.glob(path_to_Dt): the paths of the files of the class directory.
list_pathnames_of_images(label) ==
    [j \in 1..nfiles[label] |-> path_join(path_join(root, label), FileName(j))]

\* meta_set_as_paths.append( path_to_Dt ): the entry kept for a class is the
\* pattern string itself; list_pathnames_of_images is computed and dropped.
meta_set_as_paths(lbls) == [t \in 1..Len(lbls) |-> path_to_Dt(lbls[t])]

\* ------------------------------------------------- ClassDataset, DataLoader
\* ClassDataset.__len__ of the dataset wrapped by a class loader.
ClassLen(loader) == Len(loader.images)

\* The path ClassDataset.__getitem__(i) hands to PIL.Image.open: images[i].
\* images is a string, so images[i] is the one-character string at i.
image_path(loader, i) == <<loader.images[i + 1]>>

\* PIL.Image.open can never succeed on a directory; on any other path it
\* depends on the file system.
NeverOpens(path) == path = <<"/">>

\* DataLoader(batch_size=k, shuffle=True, drop_last=False), first batch of a
\* fresh iterator over n items: the first min(k, n) of a random permutation.
first_batch(n, k, g) == SliceTo(randperm(n, g), k)

\* Python list indexing seq[idx]: is idx accepted, and which item is meant.
IndexOk(seq, idx) == idx < Len(seq) /\ idx >= -Len(seq)
PyIndex(seq, idx) == IF idx < 0 THEN idx + Len(seq) + 1 ELSE idx + 1

NoErr == [kind |-> "none", ref |-> <<>>, idx |-> -1]
NoSQ == [x |-> <<>>, y |-> <<>>]
NoOut == [policy |-> "none", S_x |-> <<>>, S_y |-> <<>>, Q_x |-> <<>>, Q_y |-> <<>>]

\* The dataset[idx] calls that a run may make directly, numbered in the order
\* they are started; a call that has not been made yet.
CallIds == 1..MaxCalls
NoCall == [pc |-> "none", idx |-> 0, g |-> 0, batch |-> <<>>, err |-> NoErr]

\* MetaSet_Dataset.__init__, the loop that wraps every class: one loader per
\* label, over ClassDataset(images=meta_set_as_paths[idx], label=idx).
build_episode_loader(lbls, shot, eval) ==
    [t \in 1..Len(lbls) |->
        [images |-> meta_set_as_paths(lbls)[t],
         label |-> t - 1,
         batch_size |-> shot + eval]]

\* MetaSet_Dataset.__len__
MetaSetLen == Len(labels)

\* The indices the loader of class idx draws for one batch.
batch_indices(idx, g) ==
    LET loader == episode_loader[PyIndex(episode_loader, idx)]
    IN  first_batch(ClassLen(loader), loader.batch_size, g)

\* The class loader is found through a cursor kept on the dataset object and
\* set by whichever call started last.
getitem_batch_shared_cursor(idx, g) ==
    LET started == {c \in CallIds : calls[c].pc \in {"loading", "returned"}}
        cur == IF started = {} THEN idx
               ELSE calls[CHOOSE c \in started : \A b \in started : b <= c].idx
        loader == episode_loader[PyIndex(episode_loader, cur)]
        ind == first_batch(ClassLen(loader), loader.batch_size, g)
    IN  [idx |-> idx,
         x |-> [q \in 1..Len(ind) |->
                  [ref |-> image_path(loader, ind[q]),
                   cls |-> PyIndex(episode_loader, cur) - 1,
                   i |-> ind[q]]],
         y |-> [q \in 1..Len(ind) |-> loader.label]]

\* MetaSet_Dataset.__getitem__(idx) when every image of the batch opens:
\* [SQ_x, S_y], each example with the path it was opened from.
getitem_batch(idx, g) ==
    LET loader == episode_loader[PyIndex(episode_loader, idx)]
        ind == batch_indices(idx, g)
    IN  [idx |-> idx,
         x |-> [q \in 1..Len(ind) |->
                  [ref |-> image_path(loader, ind[q]),
                   cls |-> PyIndex(episode_loader, idx) - 1,
                   i |-> ind[q]]],
         y |-> [q \in 1..Len(ind) |-> loader.label]]

\* ClassDataset.__getitem__ has three places that can raise: PILI.open(path),
\* .convert('RGB') which decodes the pixels, and self.transform(image).
Stages == {"open", "convert", "transform"}

\* The exception that leaves ClassDataset.__getitem__ untouched by any handler:
\* the one of PILI.open names the path it was given, the ones of the decoder
\* and of the transform know nothing of the path.
load_error(stage, path, idx) ==
    [kind |-> IF stage = "transform" THEN "TransformError" ELSE "OSError",
     ref |-> IF stage = "open" THEN path ELSE <<>>,
     idx |-> idx]

\* The first image of the batch that fails to open may be the bad-th one (0:
\* none fails) only if no image before it is one that can never open.
MayFailAt(idx, g, bad) ==
    LET loader == episode_loader[PyIndex(episode_loader, idx)]
        ind == batch_indices(idx, g)
    IN  /\ bad \in 0..Len(ind)
        /\ \A q \in 1..Len(ind) :
              (bad = 0 \/ q < bad) => ~NeverOpens(image_path(loader, ind[q]))

\* ------------------------------------------------------ collate and split
\* default_collate stacks the per-class batches; torch.stack needs equal sizes.
CanCollate(bs) ==
    /\ bs # <<>>
    /\ \A a, b \in 1..Len(bs) : Len(bs[a].x) = Len(bs[b].x)

collate(bs) == [x |-> [c \in 1..Len(bs) |-> bs[c].x],
                y |-> [c \in 1..Len(bs) |-> bs[c].y]]

\* Only the first row of the tensor.
FirstRowOnly(m) == IF m = <<>> THEN <<>> ELSE Head(m)

RECURSIVE FlattenBackwards(_)
\* The rows laid out last row first.
FlattenBackwards(m) == IF m = <<>> THEN <<>> ELSE FlattenBackwards(Tail(m)) \o Head(m)

RECURSIVE Flatten(_)
\* tensor.reshape(-1, ...) of a [rows, cols, ...] tensor: row after row.
Flatten(m) == IF m = <<>> THEN <<>> ELSE Head(m) \o Flatten(Tail(m))

\* np.tile(seq, k): the whole sequence, k times over.
np_tile(seq, k) ==
    IF seq = <<>> THEN <<>>
    ELSE [q \in 1..(Len(seq) * k) |-> seq[((q - 1) % Len(seq)) + 1]]

\* np.repeat(seq, k): every item k times, in order.
np_repeat(seq, k) == [q \in 1..(Len(seq) * k) |-> seq[((q - 1) \div k) + 1]]

\* torch.stack([torch.tensor([i]).repeat(k) for i in list_classes])
stack_repeat(n, k) == [c \in 1..n |-> [q \in 1..k |-> c - 1]]

\* get_support_query_batch_of_tasks_class_is_task_M_eq_N(args, SQ_x, SQ_y)
class_is_task(SQ_x, SQ_y) ==
    [policy |-> "class_is_task",
     S_x |-> [c \in 1..Len(SQ_x) |-> SliceTo(SQ_x[c], k_shot)],
     S_y |-> stack_repeat(n_classes, k_shot),
     Q_x |-> [c \in 1..Len(SQ_x) |-> SliceFrom(SQ_x[c], k_shot)],
     Q_y |-> stack_repeat(n_classes, k_eval)]

\* get_support_query_set_for_data_set_is_task(args, SQ_x, SQ_y)
data_set_is_task(SQ_x, SQ_y) ==
    [policy |-> "data_set_is_task",
     S_x |-> Flatten([c \in 1..Len(SQ_x) |-> SliceTo(SQ_x[c], k_shot)]),
     S_y |-> np_repeat(Range(n_classes), k_shot),
     Q_x |-> Flatten([c \in 1..Len(SQ_x) |-> SliceFrom(SQ_x[c], k_shot)]),
     Q_y |-> np_repeat(Range(n_classes), k_eval)]

\* No dataset[idx] call is made directly.
DatasetUnused == calls = [c \in CallIds |-> NoCall]

\* create_your_splits is not called.
SplitsUnused ==
    /\ dirnames = {} /\ spc = "unused" /\ sorted_dirnames = <<>>
    /\ train = <<>> /\ val = <<>> /\ test = <<>> /\ moved = <<>>

\* None of the helper functions of uutils is called.
JsonUnused == to_json_call = "unused"
PickableUnused == pickable_call = "unused"
JobidUnused == jobids_call = "unused"
LogUnused == log_run = "unused"
DelaunyUnused == splits_call = "unused"
UtilsUnused ==
    /\ JsonUnused /\ PickableUnused /\ JobidUnused /\ LogUnused /\ DelaunyUnused

\* Nothing but the sampler and the loop over the loader takes part.
OthersUnused == DatasetUnused /\ SplitsUnused /\ UtilsUnused

\* No directory, dataset or loader takes part.
LoaderUnused ==
    /\ dir_exists = FALSE /\ listing = {} /\ nfiles = <<>>
    /\ k_shot = 0 /\ k_eval = 0
    /\ labels = <<>> /\ episode_loader = <<>>
    /\ lpc = "unused" /\ ep = 0 /\ group = <<>> /\ fetched = <<>>
    /\ SQ = NoSQ /\ out = NoOut /\ err = NoErr

\* EpisodicSampler.__init__ stores its three arguments as they are given.
SamplerInit ==
    /\ total_classes \in (-1)..MaxTotal
    /\ n_classes \in (-1)..(MaxTotal + 1)
    /\ n_episode \in (-1)..MaxEpisodes
    /\ gen = default_generator
    /\ fresh = -1
    /\ its = [i \in IterIds |-> NoIter]
    /\ draws = 0
    /\ LoaderUnused
    /\ OthersUnused

SamplerNext ==
    \/ \E i \in IterIds : Iter(i)
    \/ \E i \in IterIds : NextYield(i)
    \/ \E i \in IterIds : NextRaise(i)
    \/ \E i \in IterIds : NextStop(i)
    \/ \E s \in 0..MaxSeed : seed_everything(s)

SpecSampler == SamplerInit /\ [][SamplerNext]_vars

\* Consumers that may stop pulling before the sampler is exhausted.
ConsumerNext ==
    \/ \E i \in IterIds : Iter(i)
    \/ \E i \in IterIds : NextYield(i)
    \/ \E i \in IterIds : NextRaise(i)
    \/ \E i \in IterIds : NextStop(i)
    \/ \E i \in IterIds : Close(i)

SpecConsumer == SamplerInit /\ [][ConsumerNext]_vars

\* ------------------------------------------- the loop over the meta-set loader
\* prepare_data_for_few_shot_learning: MetaSet_Dataset.__init__ lists and sorts
\* the class directories and wraps each one; the sampler is built from
\* len(dataset), args.n_classes and args.episodes.
Prepare ==
    /\ lpc = "unbuilt" /\ dir_exists
    /\ labels' = sorted(listing)
    /\ episode_loader' = build_episode_loader(sorted(listing), k_shot, k_eval)
    /\ total_classes' = Len(sorted(listing))
    /\ lpc' = "idle"
    /\ UNCHANGED other_vars
    /\ UNCHANGED <<n_classes, n_episode, gen, fresh, its, draws, dir_exists,
                   listing, nfiles, k_shot, k_eval, ep, group, fetched, SQ, out, err>>

\* os.listdir(root) of a directory that does not exist.
PrepareMissing ==
    /\ lpc = "unbuilt" /\ ~dir_exists
    /\ lpc' = "error"
    /\ err' = [kind |-> "FileNotFoundError", ref |-> root, idx |-> -1]
    /\ UNCHANGED other_vars
    /\ UNCHANGED <<sampler_vars, dir_exists, listing, nfiles, k_shot, k_eval,
                   labels, episode_loader, ep, group, fetched, SQ, out>>

\* The loader pulls the next index group from its batch sampler.
PullGroup ==
    /\ lpc = "idle" /\ ep < n_episode
    /\ group' = indices_batch_tasks(total_classes, n_classes, gen)
    /\ gen' = GenStep(gen)
    /\ draws' = draws + 1
    /\ ep' = ep + 1
    /\ fetched' = <<>>
    /\ lpc' = "fetch"
    /\ fresh' = -1
    /\ UNCHANGED other_vars
    /\ UNCHANGED <<total_classes, n_classes, n_episode, its, dir_exists,
                   listing, nfiles, k_shot, k_eval, labels, episode_loader, SQ, out, err>>

\* The batch sampler is exhausted: the loop over the loader ends.
LoaderStop ==
    /\ lpc = "idle" /\ ep >= n_episode
    /\ lpc' = "end"
    /\ UNCHANGED other_vars
    /\ UNCHANGED <<sampler_vars, dir_exists, listing, nfiles, k_shot, k_eval,
                   labels, episode_loader, ep, group, fetched, SQ, out, err>>

\* dataset[idx] for the next index of the group: MetaSet_Dataset.__getitem__
\* returns [SQ_x, S_y] of one class.
GetItem ==
    /\ lpc = "fetch" /\ Len(fetched) < Len(group)
    /\ LET idx == group[Len(fetched) + 1]
       IN  /\ IndexOk(episode_loader, idx)
           /\ MayFailAt(idx, gen, 0)
           /\ fetched' = Append(fetched, getitem_batch(idx, gen))
    /\ gen' = GenStep(gen)
    /\ draws' = draws + 1
    /\ fresh' = -1
    /\ UNCHANGED other_vars
    /\ UNCHANGED <<total_classes, n_classes, n_episode, its, dir_exists,
                   listing, nfiles, k_shot, k_eval, labels, episode_loader,
                   lpc, ep, group, SQ, out, err>>

\* dataset[idx] when loading an image of the batch raises: the exception
\* leaves __getitem__, the loader and the loop.
GetItemRaises ==
    /\ lpc = "fetch" /\ Len(fetched) < Len(group)
    /\ LET idx == group[Len(fetched) + 1]
           loader == episode_loader[PyIndex(episode_loader, idx)]
       IN  /\ IndexOk(episode_loader, idx)
           /\ \E bad \in 1..Len(batch_indices(idx, gen)) :
                 LET path == image_path(loader, batch_indices(idx, gen)[bad])
                 IN  /\ MayFailAt(idx, gen, bad)
                     /\ \E stage \in Stages :
                           /\ NeverOpens(path) => stage = "open"
                           /\ err' = load_error(stage, path, idx)
    /\ gen' = GenStep(gen)
    /\ draws' = draws + 1
    /\ fresh' = -1
    /\ lpc' = "error"
    /\ UNCHANGED other_vars
    /\ UNCHANGED <<total_classes, n_classes, n_episode, its, dir_exists,
                   listing, nfiles, k_shot, k_eval, labels, episode_loader,
                   ep, group, fetched, SQ, out>>

\* default_collate of the fetched batches into (SQ_x, SQ_y).
Collate ==
    /\ lpc = "fetch" /\ Len(fetched) = Len(group)
    /\ CanCollate(fetched)
    /\ SQ' = collate(fetched)
    /\ lpc' = "collated"
    /\ UNCHANGED other_vars
    /\ UNCHANGED <<sampler_vars, dir_exists, listing, nfiles, k_shot, k_eval,
                   labels, episode_loader, ep, group, fetched, out, err>>

\* default_collate of an empty or ragged list of batches raises.
CollateRaises ==
    /\ lpc = "fetch" /\ Len(fetched) = Len(group)
    /\ ~CanCollate(fetched)
    /\ lpc' = "error"
    /\ err' = [kind |-> "CollateError", ref |-> <<>>, idx |-> -1]
    /\ UNCHANGED other_vars
    /\ UNCHANGED <<sampler_vars, dir_exists, listing, nfiles, k_shot, k_eval,
                   labels, episode_loader, ep, group, fetched, SQ, out>>

\* The body of the loop splits the episode, classes as tasks.
SplitClassIsTask ==
    /\ lpc = "collated"
    /\ out' = class_is_task(SQ.x, SQ.y)
    /\ lpc' = "split"
    /\ UNCHANGED other_vars
    /\ UNCHANGED <<sampler_vars, dir_exists, listing, nfiles, k_shot, k_eval,
                   labels, episode_loader, ep, group, fetched, SQ, err>>

\* The body of the loop splits the episode, the data set as one task.
SplitDataSetIsTask ==
    /\ lpc = "collated"
    /\ out' = data_set_is_task(SQ.x, SQ.y)
    /\ lpc' = "split"
    /\ UNCHANGED other_vars
    /\ UNCHANGED <<sampler_vars, dir_exists, listing, nfiles, k_shot, k_eval,
                   labels, episode_loader, ep, group, fetched, SQ, err>>

\* The rest of the loop body uses (S_x, S_y, Q_x, Q_y); the loop then asks the
\* loader for the next episode.
EndOfBody ==
    /\ lpc = "split"
    /\ lpc' = "idle"
    /\ out' = NoOut
    /\ UNCHANGED other_vars
    /\ UNCHANGED <<sampler_vars, dir_exists, listing, nfiles, k_shot, k_eval,
                   labels, episode_loader, ep, group, fetched, SQ, err>>

\* The directory, the arguments and the generator before prepare_data_for_
\* few_shot_learning runs. Every class directory holds the same number of
\* files, as in mini-Imagenet.
LoaderInit ==
    /\ dir_exists \in BOOLEAN
    /\ listing \in SUBSET Names
    /\ ~dir_exists => listing = {}
    /\ \E f \in 0..MaxFiles : nfiles = [name \in listing |-> f]
    /\ k_shot \in 1..MaxShot
    /\ k_eval \in 1..MaxEval
    /\ n_classes \in 1..MaxTotal
    /\ n_episode \in 1..MaxEpisodes
    /\ total_classes = 0
    /\ \E seed \in 0..MaxLoaderSeed : gen = manual_seed(seed, 0) /\ fresh = seed
    /\ its = [i \in IterIds |-> NoIter]
    /\ draws = 0
    /\ labels = <<>> /\ episode_loader = <<>>
    /\ lpc = "unbuilt" /\ ep = 0 /\ group = <<>> /\ fetched = <<>>
    /\ SQ = NoSQ /\ out = NoOut /\ err = NoErr
    /\ OthersUnused

LoaderNext ==
    \/ Prepare
    \/ PrepareMissing
    \/ PullGroup
    \/ LoaderStop
    \/ GetItem
    \/ GetItemRaises
    \/ Collate
    \/ CollateRaises
    \/ SplitClassIsTask
    \/ SplitDataSetIsTask
    \/ EndOfBody

SpecLoader == LoaderInit /\ [][LoaderNext]_vars

\* ------------------------------------------ direct access to a MetaSet_Dataset
\* dataset[idx], first half: self.episode_loader[idx] is looked up and a fresh
\* iterator over that class loader draws its permutation from the generator.
GetItemEnter(c, idx) ==
    /\ calls[c].pc = "none"
    /\ \A b \in CallIds : b < c => calls[b].pc # "none"
    /\ IndexOk(episode_loader, idx)
    /\ calls' = [calls EXCEPT ![c] = [@ EXCEPT !.pc = "loading", !.idx = idx, !.g = gen]]
    /\ gen' = GenStep(gen)
    /\ draws' = draws + 1
    /\ fresh' = -1
    /\ UNCHANGED <<total_classes, n_classes, n_episode, its, loader_vars, splits_vars, util_vars>>

\* dataset[idx] with an index the list self.episode_loader rejects.
GetItemIndexError(c, idx) ==
    /\ calls[c].pc = "none"
    /\ \A b \in CallIds : b < c => calls[b].pc # "none"
    /\ ~IndexOk(episode_loader, idx)
    /\ calls' = [calls EXCEPT ![c] =
                   [@ EXCEPT !.pc = "raised", !.idx = idx,
                             !.err = [kind |-> "IndexError", ref |-> <<>>, idx |-> idx]]]
    /\ UNCHANGED <<sampler_vars, loader_vars, splits_vars, util_vars>>

\* dataset[idx], second half: the images of the batch are opened and the
\* call returns [SQ_x, S_y].
GetItemReturn(c) ==
    /\ calls[c].pc = "loading"
    /\ MayFailAt(calls[c].idx, calls[c].g, 0)
    /\ calls' = [calls EXCEPT ![c] =
                   [@ EXCEPT !.pc = "returned",
                             !.batch = getitem_batch(calls[c].idx, calls[c].g)]]
    /\ UNCHANGED <<sampler_vars, loader_vars, splits_vars, util_vars>>

\* dataset[idx], second half, when loading an image of the batch raises.
GetItemFails(c) ==
    /\ calls[c].pc = "loading"
    /\ LET idx == calls[c].idx
           loader == episode_loader[PyIndex(episode_loader, idx)]
           ind == batch_indices(idx, calls[c].g)
       IN  \E bad \in 1..Len(ind) :
              /\ MayFailAt(idx, calls[c].g, bad)
              /\ \E stage \in Stages :
                    /\ NeverOpens(image_path(loader, ind[bad])) => stage = "open"
                    /\ calls' = [calls EXCEPT ![c] =
                                   [@ EXCEPT !.pc = "raised",
                                             !.err = load_error(stage, image_path(loader, ind[bad]), idx)]]
    /\ UNCHANGED <<sampler_vars, loader_vars, splits_vars, util_vars>>

\* A MetaSet_Dataset built on an existing directory, and the sampler built
\* from its length with an iteration over it begun, before anything is accessed;
\* one support and one query example are asked of every class.
DatasetInit ==
    /\ dir_exists = TRUE
    /\ listing \in SUBSET Names
    /\ nfiles = [name \in listing |-> MaxFiles]
    /\ k_shot = 1
    /\ k_eval = 1
    /\ labels = sorted(listing)
    /\ episode_loader = build_episode_loader(sorted(listing), k_shot, k_eval)
    /\ total_classes = Len(sorted(listing))
    /\ n_classes = 1
    /\ n_episode = 1
    /\ gen = default_generator
    /\ fresh = -1
    /\ its = [i \in IterIds |-> IF i = 1 THEN [NoIter EXCEPT !.pc = "suspended"] ELSE NoIter]
    /\ draws = 0
    /\ lpc = "idle" /\ ep = 0 /\ group = <<>> /\ fetched = <<>>
    /\ SQ = NoSQ /\ out = NoOut /\ err = NoErr
    /\ OthersUnused

\* The indices tried: every valid one, the negative ones, one past each end.
IndexRange == (-(Cardinality(Names) + 1))..Cardinality(Names)

DatasetNext ==
    \/ \E c \in CallIds : \E idx \in IndexRange : GetItemEnter(c, idx)
    \/ \E c \in CallIds : \E idx \in IndexRange : GetItemIndexError(c, idx)
    \/ \E c \in CallIds : GetItemReturn(c)
    \/ \E c \in CallIds : GetItemFails(c)
    \/ NextYield(1)

SpecDataset == DatasetInit /\ [][DatasetNext]_vars

\* ------------------------------------------------------ create_your_splits
\* Folder names are two letters; the k-th name of the universe changes its
\* first letter fastest, so that the universe is not listed in sorted order.
Letters == <<"a", "b", "c", "d", "e", "f", "g", "h">>
FolderName(k) == <<Letters[(k % Len(Letters)) + 1], Letters[(k \div Len(Letters)) + 1]>>

\* The numbers create_your_splits is written with.
NumFolders == 53
NumTrainVal == 42
NumTrain == 34
NumVal == 8
NumTest == 11

\* assert len(dirnames) == 53 fails: AssertionError, nothing else has run.
CountAssertFails ==
    /\ spc = "start"
    /\ Cardinality(dirnames) # NumFolders
    /\ spc' = "AssertionError"
    /\ UNCHANGED util_vars
    /\ UNCHANGED <<sampler_vars, loader_vars, dataset_vars,
                   dirnames, sorted_dirnames, train, val, test, moved>>

\* assert len(dirnames) == 53 passes: the names are sorted and sliced into
\* train, val and test, and the three asserts on the lengths are evaluated.
SplitLists ==
    /\ spc = "start"
    /\ Cardinality(dirnames) = NumFolders
    /\ LET sd == sorted(dirnames)
           train_val == SliceTo(sd, NumTrainVal)
       IN  /\ sorted_dirnames' = sd
           /\ train' = SliceTo(train_val, NumTrain)
           /\ val' = SliceFrom(train_val, NumTrain)
           /\ test' = SliceFrom(sd, NumTrainVal)
    /\ spc' = IF Len(train') = NumTrain /\ Len(val') = NumVal /\ Len(test') = NumTest
              THEN "split" ELSE "AssertionError"
    /\ UNCHANGED util_vars
    /\ UNCHANGED <<sampler_vars, loader_vars, dataset_vars, dirnames, moved>>

\* move_folders_recursively(root=path_for_splits / 'delauny_train_split_dir',
\* dirnames=train)
MoveTrain ==
    /\ spc = "split"
    /\ moved' = Append(moved, [root |-> "delauny_train_split_dir", dirnames |-> train])
    /\ spc' = "moved_train"
    /\ UNCHANGED util_vars
    /\ UNCHANGED <<sampler_vars, loader_vars, dataset_vars,
                   dirnames, sorted_dirnames, train, val, test>>

\* move_folders_recursively(root=path_for_splits / 'delauny_validation_split_dir',
\* dirnames=val)
MoveVal ==
    /\ spc = "moved_train"
    /\ moved' = Append(moved, [root |-> "delauny_validation_split_dir", dirnames |-> val])
    /\ spc' = "moved_val"
    /\ UNCHANGED util_vars
    /\ UNCHANGED <<sampler_vars, loader_vars, dataset_vars,
                   dirnames, sorted_dirnames, train, val, test>>

\* move_folders_recursively(root=path_for_splits / 'delauny_test_split_dir',
\* dirnames=test)
MoveTest ==
    /\ spc = "moved_val"
    /\ moved' = Append(moved, [root |-> "delauny_test_split_dir", dirnames |-> test])
    /\ spc' = "done"
    /\ UNCHANGED util_vars
    /\ UNCHANGED <<sampler_vars, loader_vars, dataset_vars,
                   dirnames, sorted_dirnames, train, val, test>>

\* Neither the sampler nor an iteration over it takes part.
SamplerUnused ==
    /\ total_classes = 0 /\ n_classes = 0 /\ n_episode = 0
    /\ gen = default_generator /\ fresh = -1
    /\ its = [i \in IterIds |-> NoIter]
    /\ draws = 0

\* The directory create_your_splits is called on.
SplitsInit ==
    /\ \E extra \in SUBSET (FixedFolders..(FixedFolders + MaxExtra - 1)) :
          dirnames = {FolderName(k) : k \in (0..(FixedFolders - 1)) \cup extra}
    /\ spc = "start"
    /\ sorted_dirnames = <<>>
    /\ train = <<>> /\ val = <<>> /\ test = <<>> /\ moved = <<>>
    /\ SamplerUnused
    /\ LoaderUnused
    /\ DatasetUnused
    /\ UtilsUnused

SplitsNext ==
    \/ CountAssertFails
    \/ SplitLists
    \/ MoveTrain
    \/ MoveVal
    \/ MoveTest

SpecSplits == SplitsInit /\ [][SplitsNext]_vars

\* ======================================================= claims, sampler
\* The parameters the contract of the sampler allows.
ValidConfig ==
    /\ total_classes > 0
    /\ 0 < n_classes /\ n_classes <= total_classes
    /\ n_episode >= 0

\* Parameters the error taxonomy calls invalid.
InvalidParams ==
    \/ n_classes > total_classes
    \/ total_classes < 0 \/ n_classes < 0 \/ n_episode < 0

\* The entries of group g are pairwise distinct.
Distinct(g) == \A a, b \in 1..Len(g) : a # b => g[a] # g[b]

\* Every group generator object i has yielded so far.
Groups(i) == {its[i].out[e] : e \in 1..Len(its[i].out)}

\* C1: under a valid configuration every yielded index group has exactly
\* n_classes entries, pairwise distinct, each in [0, total_classes).
C1_GroupShape ==
    ValidConfig =>
        \A i \in IterIds : \A g \in Groups(i) :
            /\ Len(g) = n_classes
            /\ Distinct(g)
            /\ \A a \in 1..Len(g) : g[a] \in 0..(total_classes - 1)

C1_Witness ==
    /\ ValidConfig /\ n_classes >= 2 /\ n_classes < total_classes
    /\ \E i \in IterIds : Len(its[i].out) = MaxEpisodes

\* C2: with n_episode >= 0 (and a size torch.randperm accepts) an iteration
\* never raises, never yields more than n_episode groups, and has yielded
\* exactly n_episode = __len__() groups when it stops.
C2_LengthIsNEpisode ==
    (n_episode >= 0 /\ total_classes >= 0) =>
        \A i \in IterIds :
            /\ its[i].pc # "raised"
            /\ Len(its[i].out) <= SamplerLen
            /\ its[i].pc = "done" => Len(its[i].out) = SamplerLen

C2_Witness ==
    /\ n_episode = MaxEpisodes /\ total_classes > 0
    /\ \E i \in IterIds : its[i].pc = "done" /\ Len(its[i].out) = MaxEpisodes

\* C3: with n_episode = 0 no group is ever yielded, no permutation is drawn
\* and no iteration raises, whatever the other two parameters are.
C3_ZeroEpisodes ==
    n_episode = 0 =>
        /\ draws = 0
        /\ \A i \in IterIds : its[i].out = <<>> /\ its[i].pc # "raised"

C3_Witness ==
    /\ n_episode = 0
    /\ \A i \in IterIds : its[i].pc = "done"

\* C4: a generator object made while or after another one was consumed, fully
\* or partly, still yields exactly n_episode groups, each from a permutation
\* drawn for it alone (as many draws as groups yielded, over all objects).
C4_Restartable ==
    (n_episode >= 0 /\ total_classes >= 0) =>
        /\ draws = SumEpisodes(its, MaxIters)
        /\ \A i, j \in IterIds :
              (i # j /\ its[j].pc # "none") =>
                 /\ its[i].episode = Len(its[i].out)
                 /\ (its[i].pc = "suspended" /\ Len(its[i].out) < n_episode)
                       => loop_continues(its, i)
                 /\ its[i].pc = "done" => Len(its[i].out) = n_episode

C4_Witness ==
    /\ n_episode = MaxEpisodes /\ total_classes > 0
    /\ \A i \in IterIds : its[i].pc = "done" /\ Len(its[i].out) = n_episode
    /\ \E i \in IterIds : ~its[i].alone

C6_InvalidNeverYields ==
    InvalidParams => \A i \in IterIds : its[i].out = <<>>

\* ======================================================== claims, loader
\* k = k_shot + k_eval, the batch size every class loader is built with.
BatchK == k_shot + k_eval

\* The files of the directory of the class at position c (0-based).
FilesOf(c) ==
    {list_pathnames_of_images(labels[c + 1])[j] : j \in 1..nfiles[labels[c + 1]]}

\* The batches dataset[idx] has returned for the group being materialized.
Returned == {fetched[q] : q \in 1..Len(fetched)}

\* No example index occurs twice in batch b.
NoRepeat(b) == \A p, q \in 1..Len(b.x) : p # q => b.x[p].i # b.x[q].i

\* C7: when a selected class has fewer than k_shot + k_eval examples (files in
\* its directory), dataset[idx] returns no batch for it and the error that
\* ends the call is an insufficient-data error; no returned batch is shorter
\* than k_shot + k_eval.
C7_InsufficientDataRejected ==
    /\ \A b \in Returned :
          /\ Len(b.x) = BatchK
          /\ nfiles[labels[b.x[1].cls + 1]] >= BatchK
    /\ (lpc = "error" /\ err.idx >= 0 /\ nfiles[labels[err.idx + 1]] < BatchK)
          => err.kind = "InsufficientDataError"

\* C8: for a class that stores at least k references, dataset[idx] does not
\* fail on anything but a file of that class, and the batch it returns holds
\* exactly k examples, each a file of that class, none twice; with k equal to
\* the stored count they are all the examples of the class.
C8_BatchOfClassExamples ==
    /\ \A b \in Returned :
          LET c == b.x[1].cls
              loader == episode_loader[c + 1]
          IN  ClassLen(loader) >= BatchK =>
                 /\ Len(b.x) = BatchK
                 /\ NoRepeat(b)
                 /\ \A q \in 1..Len(b.x) : b.x[q].ref \in FilesOf(c)
                 /\ ClassLen(loader) = BatchK =>
                       {b.x[q].i : q \in 1..Len(b.x)} = 0..(ClassLen(loader) - 1)
    /\ (lpc = "error" /\ err.kind = "OSError"
           /\ ClassLen(episode_loader[err.idx + 1]) >= BatchK)
          => err.ref \in FilesOf(err.idx)

\* C9: an episode of a sampler built with n_classes <= total_classes, split
\* with the data set as the task, has n_classes * k_shot support examples and
\* labels and n_classes * k_eval query examples and labels.
C9_FlatSizes ==
    (out.policy = "data_set_is_task" /\ n_classes <= total_classes) =>
        /\ Len(out.S_x) = n_classes * k_shot
        /\ Len(out.S_y) = n_classes * k_shot
        /\ Len(out.Q_x) = n_classes * k_eval
        /\ Len(out.Q_y) = n_classes * k_eval

C9_Witness ==
    /\ out.policy = "data_set_is_task" /\ lpc = "split"
    /\ n_classes >= 2 /\ n_classes <= total_classes
    /\ k_shot >= 2 /\ k_shot # k_eval
    /\ Len(out.S_x) = n_classes * k_shot

\* Examples xs and labels ys, position by position: is every label the
\* data-set index of the class its example was drawn from?
LabelsAreClassIndex(xs, ys) ==
    \A q \in 1..Len(xs) : q <= Len(ys) /\ ys[q] = xs[q].cls

\* C10 as claimed: in support and query, under both policies, the label of an
\* example is the class index the sampler selected, the one MetaSet_Dataset
\* returned with it.
C10_LabelIsClassIndex ==
    /\ out.policy = "class_is_task" =>
          \A c \in 1..Len(out.S_x) :
              /\ LabelsAreClassIndex(out.S_x[c], out.S_y[c])
              /\ LabelsAreClassIndex(out.Q_x[c], out.Q_y[c])
    /\ out.policy = "data_set_is_task" =>
          /\ LabelsAreClassIndex(out.S_x, out.S_y)
          /\ LabelsAreClassIndex(out.Q_x, out.Q_y)

\* Examples xs and labels ys of the class at position c (1-based) of group g:
\* every example was drawn from class g[c] and is labelled c - 1.
LabelsArePosition(xs, ys, g, c) ==
    \A q \in 1..Len(xs) :
        /\ q <= Len(ys) /\ ys[q] = c - 1
        /\ c <= Len(g) /\ xs[q].cls = g[c]

\* C10 as amended: the label of an example is the position, in 0..n_classes-1,
\* of its class within the episode's index group; the labels MetaSet_Dataset
\* returned (SQ_y, the class index) are not used by either policy.
C10_LabelIsPosition ==
    /\ lpc = "collated" =>
          \A c \in 1..Len(SQ.x) : \A q \in 1..Len(SQ.x[c]) :
              SQ.y[c][q] = group[c] /\ SQ.x[c][q].cls = group[c]
    /\ out.policy = "class_is_task" =>
          \A c \in 1..Len(out.S_x) :
              /\ LabelsArePosition(out.S_x[c], out.S_y[c], group, c)
              /\ LabelsArePosition(out.Q_x[c], out.Q_y[c], group, c)
    /\ out.policy = "data_set_is_task" =>
          /\ \A q \in 1..Len(out.S_x) :
                LabelsArePosition(<<out.S_x[q]>>, <<out.S_y[q]>>, group,
                                  ((q - 1) \div k_shot) + 1)
          /\ \A q \in 1..Len(out.Q_x) :
                LabelsArePosition(<<out.Q_x[q]>>, <<out.Q_y[q]>>, group,
                                  ((q - 1) \div k_eval) + 1)

C10_Witness ==
    /\ out.policy = "data_set_is_task"
    /\ lpc = "split"
    /\ Len(group) >= 2 /\ group[1] # 0
    /\ k_shot >= 2 /\ k_eval >= 2
    /\ Len(out.S_x) = Len(group) * k_shot /\ Len(out.Q_x) = Len(group) * k_eval

\* The support and the query examples the split made for the class at
\* position c (1-based) of the episode, under either policy.
SupportOf(c) ==
    IF out.policy = "class_is_task" THEN out.S_x[c]
    ELSE SubSeq(out.S_x, (c - 1) * k_shot + 1, c * k_shot)
QueryOf(c) ==
    IF out.policy = "class_is_task" THEN out.Q_x[c]
    ELSE SubSeq(out.Q_x, (c - 1) * k_eval + 1, c * k_eval)

\* The example indices of a sequence of examples.
IndicesOf(xs) == {xs[q].i : q \in 1..Len(xs)}

\* C11: after either split, for every class of the episode the support slice
\* is the first k_shot examples of the class's batch and the query slice the
\* remaining k_eval ones: together they are the batch, in order, and no
\* example is in both.
C11_SplitPartitions ==
    out.policy # "none" =>
        \A c \in 1..Len(SQ.x) :
            /\ Len(SupportOf(c)) = k_shot
            /\ Len(QueryOf(c)) = k_eval
            /\ SupportOf(c) = SubSeq(SQ.x[c], 1, k_shot)
            /\ SupportOf(c) \o QueryOf(c) = SQ.x[c]
            /\ IndicesOf(SupportOf(c)) \cap IndicesOf(QueryOf(c)) = {}
            /\ IndicesOf(SupportOf(c)) \cup IndicesOf(QueryOf(c)) = IndicesOf(SQ.x[c])

C11_Witness ==
    /\ out.policy = "class_is_task" /\ lpc = "split"
    /\ Len(SQ.x) >= 2
    /\ k_shot # k_eval /\ k_shot + k_eval >= 3
    /\ Cardinality(IndicesOf(SQ.x[2])) = k_shot + k_eval

\* C12: after the split with the data set as the task, the example at class
\* position c and example position s of the support (query) slice sits at
\* flat position c*k_shot + s (c*k_eval + s), and the label at that flat
\* position is the label of class position c (positions counted from 0).
C12_FlatAlignment ==
    out.policy = "data_set_is_task" =>
        \A c \in 0..(Len(SQ.x) - 1) :
            /\ \A t \in 0..(k_shot - 1) :
                  /\ out.S_x[c * k_shot + t + 1] = SQ.x[c + 1][t + 1]
                  /\ out.S_y[c * k_shot + t + 1] = c
            /\ \A t \in 0..(k_eval - 1) :
                  /\ out.Q_x[c * k_eval + t + 1] = SQ.x[c + 1][k_shot + t + 1]
                  /\ out.Q_y[c * k_eval + t + 1] = c

C12_Witness ==
    /\ out.policy = "data_set_is_task" /\ lpc = "split"
    /\ Len(SQ.x) >= 2 /\ k_shot >= 2 /\ k_eval >= 2
    /\ out.S_x[k_shot + 1].cls # out.S_x[1].cls
    /\ out.Q_y[k_eval + 1] = 1

\* MetaSet_Dataset.__init__ has returned a dataset object.
Constructed == lpc # "unbuilt" /\ ~(lpc = "error" /\ err.kind = "FileNotFoundError")

\* The classes of the dataset are the entries of the phase directory, in
\* ascending order of name, the class at position i labelled i.
SortedClasses ==
    /\ MetaSetLen = Cardinality(listing)
    /\ Len(episode_loader) = MetaSetLen
    /\ {labels[t] : t \in 1..Len(labels)} = listing
    /\ \A t, u \in 1..Len(labels) : t < u => StrLess(labels[t], labels[u])
    /\ \A t \in 1..Len(episode_loader) : episode_loader[t].label = t - 1

\* C13: every step that leaves a constructed MetaSet_Dataset leaves it with
\* as many classes as the phase directory has entries, ordered by sorted
\* name, the class at position i labelled i; and no step taken on a
\* constructed dataset (__getitem__, __len__, sampler iteration, collate,
\* split) changes the count, the order or a label.
C13_FixedSortedClasses ==
    [][ /\ Constructed' => SortedClasses'
        /\ Constructed => (labels' = labels /\ episode_loader' = episode_loader) ]_vars

C13_Witness ==
    /\ Constructed /\ Cardinality(listing) = 3 /\ SortedClasses
    /\ lpc = "split" /\ ep = MaxEpisodes

\* The errors a failed construction may end in.
ConstructionErrors == {"FileNotFoundError", "ConfigurationError"}

\* C15: once MetaSet_Dataset(...) has run on a phase directory that is
\* missing or holds no class, it has failed with an error and there is no
\* dataset object; no dataset with zero classes exists.
C15_EmptyOrMissingRejected ==
    /\ (lpc # "unbuilt" /\ (~dir_exists \/ listing = {}))
          => (lpc = "error" /\ err.kind \in ConstructionErrors)
    /\ Constructed => MetaSetLen > 0

\* C16: every class of a constructed dataset stores the paths of the files of
\* its directory: its length is the number of files and every reference it
\* hands out is one of those files.
C16_StoresFilePaths ==
    Constructed =>
        \A t \in 1..Len(episode_loader) :
            /\ ClassLen(episode_loader[t]) = nfiles[labels[t]]
            /\ \A i \in 0..(ClassLen(episode_loader[t]) - 1) :
                  image_path(episode_loader[t], i) \in FilesOf(t - 1)

\* The references class c (0-based) can hand to PIL.Image.open.
StoredRefs(c) ==
    {image_path(episode_loader[c + 1], i) : i \in 0..(ClassLen(episode_loader[c + 1]) - 1)}

\* C19: when an example fails to decode or transform, the loop ends in that
\* error and the error names the failing reference, a reference of the class
\* being materialized; the class was asked for once (one more draw, no
\* retry), no batch was returned for it, no returned batch holds an example
\* that cannot open, and nothing runs after the error.
C19_DecodeErrorPropagates ==
    [][ /\ lpc # "error"
        /\ \A b \in {fetched'[q] : q \in 1..Len(fetched')} :
               \A q \in 1..Len(b.x) : ~NeverOpens(b.x[q].ref)
        /\ (lpc' = "error" /\ err'.idx >= 0) =>
               /\ err'.ref \in StoredRefs(err'.idx)
               /\ Len(fetched') < Len(group')
               /\ err'.idx = group'[Len(fetched') + 1]
               /\ fetched' = fetched /\ SQ' = SQ /\ out' = NoOut
               /\ draws' = draws + 1 ]_vars

\* ======================================================= claims, dataset
\* The direct calls that have been started.
Started == {c \in CallIds : calls[c].pc # "none"}

\* C14: dataset[i] fails with an out-of-range error for every i outside
\* [0, N), negative i included, and for i inside it whatever it returns is a
\* batch of the class at position i.
C14_OutOfRangeRejected ==
    \A c \in Started :
        /\ calls[c].idx \notin 0..(MetaSetLen - 1)
              => (calls[c].pc = "raised" /\ calls[c].err.kind = "IndexError")
        /\ (calls[c].idx \in 0..(MetaSetLen - 1) /\ calls[c].pc = "returned")
              => \A q \in 1..Len(calls[c].batch.x) :
                    calls[c].batch.x[q].cls = calls[c].idx

\* The calls whose class loader has drawn a batch.
Drawn == {c \in CallIds : calls[c].pc \in {"loading", "returned"}
                              \/ (calls[c].pc = "raised" /\ calls[c].err.kind # "IndexError")}

\* C18: under every interleaving of dataset[idx] calls and sampler pulls, no
\* step changes an attribute of the dataset or of the sampler; every call
\* with idx in [0, N) that returns, returns examples of the class object at
\* idx only, all labelled idx; and every call draws its own batch (as many
\* draws from the generator as calls that got to draw plus groups yielded).
C18_NoSharedMutableState ==
    [][ /\ labels' = labels /\ episode_loader' = episode_loader
        /\ k_shot' = k_shot /\ k_eval' = k_eval
        /\ total_classes' = total_classes /\ n_classes' = n_classes
        /\ n_episode' = n_episode
        /\ \A c \in CallIds :
              (calls'[c].pc = "returned" /\ calls'[c].idx \in 0..(MetaSetLen - 1)) =>
                 /\ calls'[c].batch.idx = calls'[c].idx
                 /\ \A q \in 1..Len(calls'[c].batch.x) :
                       /\ calls'[c].batch.x[q].cls = calls'[c].idx
                       /\ calls'[c].batch.x[q].ref \in StoredRefs(calls'[c].idx)
                       /\ calls'[c].batch.y[q] = calls'[c].idx
        /\ draws' = Cardinality(Drawn') + Len(its'[1].out) ]_vars

C18_Witness ==
    /\ \A c \in CallIds : calls[c].pc = "returned"
    /\ \E b, c \in CallIds :
          /\ b # c /\ calls[b].idx = calls[c].idx /\ calls[b].idx >= 0
          /\ calls[b].batch # calls[c].batch
    /\ Len(its[1].out) = 1 /\ MetaSetLen >= 2

\* ================================================= claims, sampler (lazy)
RECURSIVE SumYielded(_, _)
\* Groups yielded by the generator objects 1..k together.
SumYielded(f, k) == IF k = 0 THEN 0 ELSE Len(f[k].out) + SumYielded(f, k - 1)

\* C17: a permutation is drawn only in the step that yields a group, one per
\* group, so the draws made always equal the groups pulled; a generator
\* object that was dropped after j groups, or is exhausted, never changes or
\* draws again, and dropping it changes nothing but that object's position.
C17_LazyDraws ==
    [][ /\ draws' = SumYielded(its', MaxIters)
        /\ draws' - draws = SumYielded(its', MaxIters) - SumYielded(its, MaxIters)
        /\ draws' - draws \in {0, 1}
        /\ \A i \in IterIds :
              /\ its[i].pc \in {"closed", "done", "raised"} => its'[i] = its[i]
              /\ (its[i].pc = "suspended" /\ its'[i].pc = "closed") =>
                    /\ draws' = draws /\ gen' = gen
                    /\ its'[i].out = its[i].out
                    /\ Len(its[i].out) <= n_episode \/ its[i].out = <<>>
                    /\ \A j \in IterIds : j # i => its'[j] = its[j] ]_vars

C17_Witness ==
    /\ n_episode = MaxEpisodes /\ total_classes > 0
    /\ its[1].pc = "closed" /\ Len(its[1].out) = 1
    /\ its[2].pc = "done" /\ Len(its[2].out) = MaxEpisodes
    /\ draws = MaxEpisodes + 1

\* ======================================================== claims, splits
\* The names of a list.
NamesOf(lst) == {lst[q] : q \in 1..Len(lst)}

\* C20: with exactly 53 folders create_your_splits does not fail and the
\* lists it moves are 34, 8 and 11 names, pairwise disjoint, together all 53,
\* every train name sorting before every val name and every val name before
\* every test name, the three moves made in that order; with any other count
\* it ends in AssertionError and has moved nothing.
C20_SplitBySortedName ==
    /\ spc = "AssertionError" => (Cardinality(dirnames) # NumFolders /\ moved = <<>>)
    /\ (spc # "start" /\ Cardinality(dirnames) # NumFolders) => spc = "AssertionError"
    /\ spc \in {"split", "moved_train", "moved_val", "done"} =>
          /\ Cardinality(dirnames) = 53
          /\ Len(train) = 34 /\ Len(val) = 8 /\ Len(test) = 11
          /\ Cardinality(NamesOf(train)) = 34
          /\ Cardinality(NamesOf(val)) = 8
          /\ Cardinality(NamesOf(test)) = 11
          /\ NamesOf(train) \cap NamesOf(val) = {}
          /\ NamesOf(train) \cap NamesOf(test) = {}
          /\ NamesOf(val) \cap NamesOf(test) = {}
          /\ NamesOf(train) \cup NamesOf(val) \cup NamesOf(test) = dirnames
          /\ \A a \in NamesOf(train) : \A b \in NamesOf(val) : StrLess(a, b)
          /\ \A b \in NamesOf(val) : \A c \in NamesOf(test) : StrLess(b, c)
          /\ \A q \in 1..Len(moved) :
                moved[q].dirnames = <<train, val, test>>[q]
    /\ spc = "done" => Len(moved) = 3

C20_Witness ==
    /\ spc = "done"
    /\ FolderName(FixedFolders) \in NamesOf(train)
    /\ FolderName(FixedFolders + MaxExtra - 1) \in NamesOf(test)
    /\ Len(moved) = 3 /\ moved[2].dirnames = val

-----------------------------------------------------------------------------
\* uutils.to_json: a dictionary or a namespace turned into a dictionary of
\* strings.
\*
\* A python value is a record: t its type, n the number of an int, s the
\* characters of a str, d the items of a dict or the fields of a Namespace
\* (a set of [k, v], one per key).

MaxNodes == 4
MaxJsonInt == 12

JsonKeys == {"a", "b"}

PyInt(n) == [t |-> "int", n |-> n, s |-> <<>>, d |-> {}]
PyStr(chars) == [t |-> "str", n |-> 0, s |-> chars, d |-> {}]
PyNone == [t |-> "NoneType", n |-> 0, s |-> <<>>, d |-> {}]
PyDict(items) == [t |-> "dict", n |-> 0, s |-> <<>>, d |-> items]
PyNamespace(items) == [t |-> "Namespace", n |-> 0, s |-> <<>>, d |-> items]

Item(k, v) == [k |-> k, v |-> v]
Keys(items) == {it.k : it \in items}
Get(items, k) == (CHOOSE it \in items : it.k = k).v

\* The values that are not containers, and the namespaces of at most one field.
JsonLeaves ==
    {PyInt(-1), PyInt(0), PyInt(MaxJsonInt), PyStr(<<>>), PyStr(<<"x">>), PyNone,
     PyNamespace({}), PyNamespace({Item("a", PyInt(1))})}

\* The values of at most n nodes: the leaves, and the dictionaries over JsonKeys
\* of values.
RECURSIVE ValuesOfSize(_)
ValuesOfSize(n) ==
    IF n <= 0 THEN {}
    ELSE JsonLeaves
         \cup {PyDict({})}
         \cup {PyDict({Item(k, v)}) : k \in JsonKeys, v \in ValuesOfSize(n - 1)}
         \cup UNION {{PyDict({Item("a", va), Item("b", vb)}) :
                         va \in ValuesOfSize(i), vb \in ValuesOfSize(n - 1 - i)} :
                     i \in 1..(n - 2)}

\* The arguments to_json is called with: any value, and the namespaces whose
\* fields are the items of a dictionary.
JsonInputs ==
    LET values == ValuesOfSize(MaxNodes)
    IN  values \cup {PyNamespace(v.d) : v \in {w \in values : w.t = "dict"}}

Digit(n) == <<"0", "1", "2", "3", "4", "5", "6", "7", "8", "9">>[n + 1]

RECURSIVE str_int(_)
str_int(n) ==
    IF n < 0 THEN <<"-">> \o str_int(-n)
    ELSE IF n < 10 THEN <<Digit(n)>>
    ELSE str_int(n \div 10) \o <<Digit(n % 10)>>

\* repr() of the field of a one-field namespace: an int or a str.
py_repr(x) ==
    IF x.t = "int" THEN str_int(x.n) ELSE <<"'">> \o x.s \o <<"'">>

\* str() of a value that is not a dictionary; an object without a __str__ of
\* its own gives its type between angle brackets.
py_str(x) ==
    CASE x.t = "int" -> str_int(x.n)
      [] x.t = "str" -> x.s
      [] x.t = "NoneType" -> <<"N", "o", "n", "e">>
      [] x.t = "Namespace" ->
            <<"N", "a", "m", "e", "s", "p", "a", "c", "e", "(">>
            \o (IF x.d = {} THEN <<>>
                ELSE LET it == CHOOSE it \in x.d : TRUE
                     IN  <<it.k, "=">> \o py_repr(it.v))
            \o <<")">>
      [] OTHER -> <<"<", x.t, ">">>

\* A mutation of _to_json_dict_with_strings: the leaves are returned as they
\* are.
RECURSIVE _to_json_dict_without_str(_)
_to_json_dict_without_str(dictionary) ==
    IF dictionary.t # "dict" THEN dictionary
    ELSE PyDict({Item(it.k, _to_json_dict_without_str(it.v)) : it \in dictionary.d})

RECURSIVE _to_json_dict_with_strings(_)
_to_json_dict_with_strings(dictionary) ==
    IF dictionary.t # "dict" THEN PyStr(py_str(dictionary))
    ELSE PyDict({Item(it.k, _to_json_dict_with_strings(it.v)) : it \in dictionary.d})

\* to_json has an attribute __dict__ to read on everything but the builtin
\* values.
has___dict__(x) == x.t = "Namespace"

\* to_json(dic): a dict is copied, anything else gives its __dict__.
to_json(dic) ==
    _to_json_dict_with_strings(PyDict(dic.d))

ToJson ==
    /\ to_json_call.pc = "start"
    /\ to_json_call.dic.t = "dict" \/ has___dict__(to_json_call.dic)
    /\ to_json_call' = [to_json_call EXCEPT !.ret = to_json(to_json_call.dic),
                                             !.pc = "returned"]
    /\ UNCHANGED <<core_vars, pickable_call, jobids_call, log_run, splits_call>>

ToJsonAttributeError ==
    /\ to_json_call.pc = "start"
    /\ to_json_call.dic.t # "dict" /\ ~has___dict__(to_json_call.dic)
    /\ to_json_call' = [to_json_call EXCEPT !.pc = "AttributeError"]
    /\ UNCHANGED <<core_vars, pickable_call, jobids_call, log_run, splits_call>>

JsonInit ==
    /\ to_json_call \in [dic : JsonInputs, ret : {PyNone}, pc : {"start"}]
    /\ SamplerUnused /\ LoaderUnused /\ DatasetUnused /\ SplitsUnused
    /\ PickableUnused /\ JobidUnused /\ LogUnused /\ DelaunyUnused

JsonNext == ToJson \/ ToJsonAttributeError

SpecJson == JsonInit /\ [][JsonNext]_vars

\* y is x with every value that is not a dictionary replaced by its str().
RECURSIVE StringsOf(_, _)
StringsOf(x, y) ==
    IF x.t = "dict"
    THEN /\ y.t = "dict"
         /\ Keys(y.d) = Keys(x.d)
         /\ Cardinality(y.d) = Cardinality(x.d)
         /\ \A k \in Keys(x.d) : StringsOf(Get(x.d, k), Get(y.d, k))
    ELSE y.t = "str" /\ y.s = py_str(x)

RECURSIVE Depth(_)
Depth(x) ==
    IF x.t # "dict" THEN 0
    ELSE 1 + (LET ds == {Depth(it.v) : it \in x.d}
              IN  IF ds = {} THEN 0 ELSE CHOOSE m \in ds : \A o \in ds : o <= m)

JsonArgs == to_json_call.dic

\* C21: to_json applied to a dictionary or to a namespace, nested or not,
\* returns a dictionary with the keys of the argument and its nesting of
\* dictionaries in which every leaf is the str() of the leaf of the argument;
\* the argument is left as it was.
C21_ToJsonStringLeaves ==
    [][ToJson => /\ to_json_call.dic.t \in {"dict", "Namespace"}
                 /\ StringsOf(PyDict(to_json_call.dic.d), to_json_call'.ret)
                 /\ to_json_call'.dic = to_json_call.dic]_vars

C21_Witness ==
    /\ JsonArgs.t = "Namespace"
    /\ to_json_call.pc = "returned"
    /\ Depth(PyDict(JsonArgs.d)) = 3
    /\ \E it \in JsonArgs.d : it.v = PyInt(MaxJsonInt)
    /\ \E it \in JsonArgs.d :
          it.v.t = "dict" /\ \E inner \in it.v.d : inner.v.t = "dict"

-----------------------------------------------------------------------------
\* uutils.make_args_pickable: a namespace copied field by field, the values
\* that cannot be pickled replaced by their str().
\*
\* A namespace is the sequence of its fields, each an Item, in the order of
\* vars(); the caller has set them one by one before the call.

MaxFields == 3

FieldNames == {<<"a">>, <<"b">>, <<"c">>, <<"d">>}

PyObject(type) == [t |-> type, n |-> 0, s |-> <<>>, d |-> {}]

\* dill.pickles(field_val): generators and locks cannot be pickled, and
\* neither can a namespace holding one.
RECURSIVE pickles(_)
pickles(field_val) ==
    /\ field_val.t \notin {"generator", "lock"}
    /\ \A it \in field_val.d : pickles(it.v)

FieldValues ==
    {PyInt(MaxJsonInt), PyStr(<<"x">>), PyObject("generator"),
     PyNamespace({Item("a", PyObject("lock"))})}

HasField(ns, k) == \E i \in 1..Len(ns) : ns[i].k = k

\* A mutation of pickable_field_val: every value is kept.
field_val_kept(field_val) == field_val

\* The value make_args_pickable sets for a field.
pickable_field_val(field_val) ==
    IF ~pickles(field_val) THEN PyStr(py_str(field_val)) ELSE field_val

\* The caller sets a field of args that it does not have yet.
SetAttr(k, v) ==
    /\ pickable_call.pc = "start"
    /\ Len(pickable_call.args) < MaxFields
    /\ ~HasField(pickable_call.args, k)
    /\ pickable_call' =
          [pickable_call EXCEPT !.args = Append(pickable_call.args, Item(k, v))]
    /\ UNCHANGED <<core_vars, to_json_call, jobids_call, log_run, splits_call>>

\* pickable_args = argparse.Namespace()
MakeNamespace ==
    /\ pickable_call.pc = "start"
    /\ pickable_call' =
          [pickable_call EXCEPT !.pickable_args = <<>>, !.field = 0, !.pc = "loop"]
    /\ UNCHANGED <<core_vars, to_json_call, jobids_call, log_run, splits_call>>

\* One turn of the loop over vars(args).
SetField ==
    /\ pickable_call.pc = "loop"
    /\ pickable_call.field < Len(pickable_call.args)
    /\ LET field == pickable_call.args[pickable_call.field + 1].k
           field_val == pickable_call.args[pickable_call.field + 1].v
       IN  pickable_call' =
              [pickable_call EXCEPT
                  !.pickable_args =
                      Append(pickable_call.pickable_args,
                             Item(field, pickable_field_val(field_val))),
                  !.field = pickable_call.field + 1]
    /\ UNCHANGED <<core_vars, to_json_call, jobids_call, log_run, splits_call>>

ReturnPickable ==
    /\ pickable_call.pc = "loop"
    /\ pickable_call.field = Len(pickable_call.args)
    /\ pickable_call' = [pickable_call EXCEPT !.pc = "returned"]
    /\ UNCHANGED <<core_vars, to_json_call, jobids_call, log_run, splits_call>>

PickableInit ==
    /\ pickable_call = [args |-> <<>>, pickable_args |-> <<>>, field |-> 0,
                        pc |-> "start"]
    /\ SamplerUnused /\ LoaderUnused /\ DatasetUnused /\ SplitsUnused
    /\ JsonUnused /\ JobidUnused /\ LogUnused /\ DelaunyUnused

PickableNext ==
    \/ \E k \in FieldNames, v \in FieldValues : SetAttr(k, v)
    \/ MakeNamespace
    \/ SetField
    \/ ReturnPickable

SpecPickable == PickableInit /\ [][PickableNext]_vars

\* C22: make_args_pickable returns a namespace of its own with exactly the
\* field names of the argument, every value that pickles kept as it is and
\* every value that does not replaced by its str(); the argument is not
\* changed by any step of the call.
C22_PickableCopy ==
    [][LET margs == pickable_call.args
           returned == pickable_call'.pickable_args
       IN  /\ pickable_call'.pc # "start" => pickable_call'.args = margs
           /\ pickable_call'.pc = "returned" =>
                 /\ Len(returned) = Len(margs)
                 /\ \A i \in 1..Len(margs) :
                       /\ returned[i].k = margs[i].k
                       /\ pickles(margs[i].v) => returned[i].v = margs[i].v
                       /\ ~pickles(margs[i].v) =>
                             /\ returned[i].v.t = "str"
                             /\ returned[i].v.s = py_str(margs[i].v)]_vars

C22_Witness ==
    LET margs == pickable_call.args
    IN  /\ pickable_call.pc = "returned"
        /\ Len(margs) = MaxFields
        /\ \E i \in 1..Len(margs) : margs[i].v.t = "generator"
        /\ \E i \in 1..Len(margs) : margs[i].v.t = "Namespace"
        /\ \E i \in 1..Len(margs) : pickles(margs[i].v)

-----------------------------------------------------------------------------
\* uutils.logging_uu.wandb_logging.supervised_learning: log_train_val_stats
\* called by a training loop at the steps 0, 1, 2, ...
\*
\* Losses are counted in tenths. log_run holds: lead, the result of
\* is_lead_worker(args.rank); best_val_loss, args.best_val_loss, which starts
\* above every loss (float('inf')); freqs, args.ckpt_freq and args.log_freq,
\* each with a flag telling whether args has the attribute; step, the step of
\* the next call; call, the arguments of the last call; effects, in order,
\* what the last call did; ckpt_steps, the steps at which 'ckpt.pt' was
\* written.

MaxStep == 3
MaxLoss == 2
MaxCi == 2
MaxFreq == 2

Losses == 0..MaxLoss
Cis == 0..MaxCi
Infinity == MaxLoss + 1
FreqValues == (-1)..MaxFreq

ArgsFreqs ==
    [has_ckpt_freq : BOOLEAN, ckpt_freq : FreqValues,
     has_log_freq : BOOLEAN, log_freq : FreqValues,
     log_to_tb : BOOLEAN, log_to_wandb : BOOLEAN]

\* No call made yet.
NoCallYet ==
    [made |-> FALSE, step |-> 0, ckpt_freq |-> 0, save_val_ckpt |-> FALSE,
     val_loss |-> 0, val_loss_ci |-> 0, best_before |-> 0]

\* A mutation of ckpt_freq_of: args.ckpt_freq is never looked at.
ckpt_freq_always_log_freq(a) == a.log_freq

\* getattr(args, 'ckpt_freq', args.log_freq)
ckpt_freq_of(a) == IF a.has_ckpt_freq THEN a.ckpt_freq ELSE a.log_freq

\* a % b of python for b # 0: the result has the sign of b.
py_mod(a, b) == IF b > 0 THEN a % b ELSE -((-a) % (-b))

\* A mutation of best_val_improves: the confidence interval is left out.
best_val_improves_without_ci(val_loss, val_loss_ci, best, save_val_ckpt) ==
    val_loss < best /\ save_val_ckpt

\* float(val_loss - val_loss_ci) < float(args.best_val_loss) and save_val_ckpt
best_val_improves(val_loss, val_loss_ci, best, save_val_ckpt) ==
    val_loss - val_loss_ci < best /\ save_val_ckpt

\* A mutation of body_runs: every worker runs the body.
body_runs_on_every_worker(is_lead_worker) == TRUE

\* if is_lead_worker(args.rank)
body_runs(is_lead_worker) == is_lead_worker

\* What the call does up to the checkpoint decision.
validation_effects(val_loss, val_loss_ci, best, save_val_ckpt) ==
    <<"valid">>
    \o (IF best_val_improves(val_loss, val_loss_ci, best, save_val_ckpt)
        THEN <<"ckpt_best_val.pt">> ELSE <<>>)

\* What the call does from the checkpoint decision on.
logging_effects(s, ckpt_freq, a) ==
    (IF py_mod(s, ckpt_freq) = 0 THEN <<"ckpt.pt">> ELSE <<>>)
    \o <<"args.json", "bar.update", "logger.log", "logger.log", "logger.log">>
    \o (IF a.log_to_wandb THEN <<"logger.record", "wandb">> ELSE <<>>)
    \o (IF a.log_to_tb THEN <<"tensorboard", "tensorboard">> ELSE <<>>)

ThisCall(save_val_ckpt, val_loss, val_loss_ci) ==
    [made |-> TRUE, step |-> log_run.step,
     ckpt_freq |-> ckpt_freq_of(log_run.freqs),
     save_val_ckpt |-> save_val_ckpt, val_loss |-> val_loss,
     val_loss_ci |-> val_loss_ci, best_before |-> log_run.best_val_loss]

\* log_train_val_stats on an args without log_freq: the default of getattr is
\* evaluated before _log_train_val_stats is called.
LogAttributeError ==
    /\ log_run.pc = "idle"
    /\ log_run.step <= MaxStep
    /\ ~log_run.freqs.has_log_freq
    /\ log_run' = [log_run EXCEPT !.pc = "AttributeError"]
    /\ UNCHANGED <<core_vars, to_json_call, pickable_call, jobids_call, splits_call>>

\* A call on a worker that is not the lead worker.
NotLeadCall(save_val_ckpt) ==
    /\ log_run.pc = "idle"
    /\ log_run.step <= MaxStep
    /\ log_run.freqs.has_log_freq
    /\ ~body_runs(log_run.lead)
    /\ log_run' = [log_run EXCEPT !.call = ThisCall(save_val_ckpt, 0, 0),
                                   !.effects = <<>>,
                                   !.step = log_run.step + 1]
    /\ UNCHANGED <<core_vars, to_json_call, pickable_call, jobids_call, splits_call>>

\* A call on the lead worker; valid returns val_loss and val_loss_ci.
LeadCall(save_val_ckpt, val_loss, val_loss_ci) ==
    /\ log_run.pc = "idle"
    /\ log_run.step <= MaxStep
    /\ log_run.freqs.has_log_freq
    /\ body_runs(log_run.lead)
    /\ ckpt_freq_of(log_run.freqs) # 0
    /\ log_run' =
          [log_run EXCEPT
              !.call = ThisCall(save_val_ckpt, val_loss, val_loss_ci),
              !.best_val_loss =
                  IF best_val_improves(val_loss, val_loss_ci,
                                       log_run.best_val_loss, save_val_ckpt)
                  THEN val_loss ELSE log_run.best_val_loss,
              !.effects =
                  validation_effects(val_loss, val_loss_ci,
                                     log_run.best_val_loss, save_val_ckpt)
                  \o logging_effects(log_run.step, ckpt_freq_of(log_run.freqs),
                                     log_run.freqs),
              !.ckpt_steps =
                  IF py_mod(log_run.step, ckpt_freq_of(log_run.freqs)) = 0
                  THEN log_run.ckpt_steps \cup {log_run.step}
                  ELSE log_run.ckpt_steps,
              !.step = log_run.step + 1]
    /\ UNCHANGED <<core_vars, to_json_call, pickable_call, jobids_call, splits_call>>

\* A call on the lead worker with a ckpt_freq of 0: step % ckpt_freq raises
\* after the best-validation decision.
LeadCallZeroDivisionError(save_val_ckpt, val_loss, val_loss_ci) ==
    /\ log_run.pc = "idle"
    /\ log_run.step <= MaxStep
    /\ log_run.freqs.has_log_freq
    /\ body_runs(log_run.lead)
    /\ ckpt_freq_of(log_run.freqs) = 0
    /\ log_run' =
          [log_run EXCEPT
              !.call = ThisCall(save_val_ckpt, val_loss, val_loss_ci),
              !.best_val_loss =
                  IF best_val_improves(val_loss, val_loss_ci,
                                       log_run.best_val_loss, save_val_ckpt)
                  THEN val_loss ELSE log_run.best_val_loss,
              !.effects =
                  validation_effects(val_loss, val_loss_ci,
                                     log_run.best_val_loss, save_val_ckpt),
              !.pc = "ZeroDivisionError"]
    /\ UNCHANGED <<core_vars, to_json_call, pickable_call, jobids_call, splits_call>>

LogInit ==
    /\ log_run \in [lead : BOOLEAN, best_val_loss : {Infinity}, freqs : ArgsFreqs,
                    step : {0}, call : {NoCallYet}, pc : {"idle"},
                    effects : {<<>>}, ckpt_steps : {{}}]
    /\ SamplerUnused /\ LoaderUnused /\ DatasetUnused /\ SplitsUnused
    /\ JsonUnused /\ PickableUnused /\ JobidUnused /\ DelaunyUnused

LogNext ==
    \/ LogAttributeError
    \/ \E save_val_ckpt \in BOOLEAN : NotLeadCall(save_val_ckpt)
    \/ \E save_val_ckpt \in BOOLEAN, val_loss \in Losses, val_loss_ci \in Cis :
          LeadCall(save_val_ckpt, val_loss, val_loss_ci)
    \/ \E save_val_ckpt \in BOOLEAN, val_loss \in Losses, val_loss_ci \in Cis :
          LeadCallZeroDivisionError(save_val_ckpt, val_loss, val_loss_ci)

SpecLog == LogInit /\ [][LogNext]_vars

Did(effect) ==
    \E i \in 1..Len(log_run.effects) : log_run.effects[i] = effect

\* C23: over any sequence of calls on the lead worker args.best_val_loss
\* never increases: after each call it is at most what it was before.
C23_BestNeverIncreases ==
    [][log_run.lead => log_run'.best_val_loss <= log_run.best_val_loss]_vars

\* C24: on the lead worker a call writes 'ckpt_best_val.pt' and sets
\* args.best_val_loss to the measured val_loss exactly when save_val_ckpt is
\* true and val_loss - val_loss_ci is below the best_val_loss held before the
\* call; otherwise best_val_loss is unchanged and no best-validation checkpoint
\* is written.
C24_BestValCheckpoint ==
    (log_run.lead /\ log_run.call.made) =>
        LET call == log_run.call
            better == /\ call.save_val_ckpt
                      /\ call.val_loss - call.val_loss_ci < call.best_before
        IN  /\ better => /\ Did("ckpt_best_val.pt")
                         /\ log_run.best_val_loss = call.val_loss
            /\ ~better => /\ ~Did("ckpt_best_val.pt")
                          /\ log_run.best_val_loss = call.best_before

C24_Witness ==
    LET call == log_run.call
    IN  /\ log_run.lead /\ call.made /\ call.step > 0
        /\ call.save_val_ckpt
        /\ call.val_loss_ci > 0
        /\ call.val_loss - call.val_loss_ci < call.best_before
        /\ call.best_before < Infinity
        /\ Did("ckpt_best_val.pt")
        /\ log_run.best_val_loss = call.val_loss

\* C25: on a worker that is not the lead worker a call has no effect:
\* validation is not run, no checkpoint and no args file is written, the
\* progress bar and the logger are not touched, args.best_val_loss is
\* unchanged.
C25_NotLeadNoEffect ==
    [][~log_run.lead => /\ log_run'.effects = <<>>
                        /\ log_run'.best_val_loss = log_run.best_val_loss
                        /\ log_run'.ckpt_steps = log_run.ckpt_steps]_vars

C25_Witness ==
    /\ ~log_run.lead /\ log_run.call.made
    /\ log_run.call.save_val_ckpt
    /\ log_run.call.step = 2 /\ log_run.call.ckpt_freq = 2
    /\ log_run.step = 3

Abs(x) == IF x < 0 THEN -x ELSE x

-----------------------------------------------------------------------------
\* uutils.torch_uu.dataset.delaunay_uu.get_delauny_dataset_splits: the three
\* datasets, the validation set either read from path2val or split off the
\* training set.
\*
\* splits_call holds the arguments random_split and path2val (the string
\* given and what expanduser made of it), the number of images under
\* path2train, and valid_dataset.

MaxOff == 2

\* The numbers get_delauny_dataset_splits is written with.
SplitTrain == 7362
SplitVal == 1840
SplitSeed == 42

Path2ValGiven == {<<>>, <<"~", "/", "v">>, <<"/", "v">>, <<"v">>}
TrainLens == (SplitTrain + SplitVal - MaxOff)..(SplitTrain + SplitVal + MaxOff)
ValLens == (SplitVal - MaxOff)..(SplitVal + MaxOff)

NoDataset == [kind |-> "none", len |-> 0, rest |-> 0, seed |-> 0, root |-> <<>>]

\* str() of what uutils.expanduser returns for a path: a leading ~ becomes
\* the home directory, here /h; the empty string stays empty if a str is
\* returned and is '.' if a pathlib.Path is returned.
expanduser_results(path) ==
    IF path = <<>> THEN {<<>>, <<".">>}
    ELSE IF path[1] = "~" THEN {<<"/", "h">> \o Tail(path)}
    ELSE {path}

\* torch.utils.data.random_split(dataset, lengths, generator).
random_split_fits(len, lengths) == lengths[1] + lengths[2] = len

\* The second part random_split returns.
second_subset(lengths, seed) ==
    [kind |-> "Subset", len |-> lengths[2], rest |-> lengths[1], seed |-> seed,
     root |-> <<>>]

ImageFolder(folder, len) ==
    [kind |-> "ImageFolder", len |-> len, rest |-> 0, seed |-> 0, root |-> folder]

\* The condition asserted after the random split.
path2val_assertion(expanded) == expanded # <<>>

ExpandPaths ==
    /\ splits_call.pc = "start"
    /\ \E expanded \in expanduser_results(splits_call.path2val.given) :
          splits_call' = [splits_call EXCEPT !.path2val.expanded = expanded,
                                             !.pc = "expanded"]
    /\ UNCHANGED <<core_vars, to_json_call, pickable_call, jobids_call, log_run>>

RandomSplit ==
    /\ splits_call.pc = "expanded"
    /\ splits_call.random_split
    /\ random_split_fits(splits_call.train_len, <<SplitTrain, SplitVal>>)
    /\ splits_call' =
          [splits_call EXCEPT
              !.valid_dataset = second_subset(<<SplitTrain, SplitVal>>, SplitSeed),
              !.pc = "split"]
    /\ UNCHANGED <<core_vars, to_json_call, pickable_call, jobids_call, log_run>>

RandomSplitValueError ==
    /\ splits_call.pc = "expanded"
    /\ splits_call.random_split
    /\ ~random_split_fits(splits_call.train_len, <<SplitTrain, SplitVal>>)
    /\ splits_call' = [splits_call EXCEPT !.pc = "ValueError"]
    /\ UNCHANGED <<core_vars, to_json_call, pickable_call, jobids_call, log_run>>

AssertPath2Val ==
    /\ splits_call.pc = "split"
    /\ path2val_assertion(splits_call.path2val.expanded)
    /\ splits_call' = [splits_call EXCEPT !.pc = "asserted"]
    /\ UNCHANGED <<core_vars, to_json_call, pickable_call, jobids_call, log_run>>

AssertPath2ValFails ==
    /\ splits_call.pc = "split"
    /\ ~path2val_assertion(splits_call.path2val.expanded)
    /\ splits_call' = [splits_call EXCEPT !.pc = "AssertionError"]
    /\ UNCHANGED <<core_vars, to_json_call, pickable_call, jobids_call, log_run>>

\* valid_dataset = ImageFolder(path2val, ...) with len images under it.
ValidImageFolder(len) ==
    /\ splits_call.pc = "expanded"
    /\ ~splits_call.random_split
    /\ splits_call' =
          [splits_call EXCEPT
              !.valid_dataset = ImageFolder(splits_call.path2val.expanded, len),
              !.pc = "asserted"]
    /\ UNCHANGED <<core_vars, to_json_call, pickable_call, jobids_call, log_run>>

ReturnSplits ==
    /\ splits_call.pc = "asserted"
    /\ splits_call' = [splits_call EXCEPT !.pc = "returned"]
    /\ UNCHANGED <<core_vars, to_json_call, pickable_call, jobids_call, log_run>>

DelaunyInit ==
    /\ splits_call \in [random_split : BOOLEAN,
                        path2val : [given : Path2ValGiven, expanded : {<<>>}],
                        train_len : TrainLens,
                        valid_dataset : {NoDataset},
                        pc : {"start"}]
    /\ SamplerUnused /\ LoaderUnused /\ DatasetUnused /\ SplitsUnused
    /\ JsonUnused /\ PickableUnused /\ JobidUnused /\ LogUnused

DelaunyNext ==
    \/ ExpandPaths
    \/ RandomSplit
    \/ RandomSplitValueError
    \/ AssertPath2Val
    \/ AssertPath2ValFails
    \/ \E len \in ValLens : ValidImageFolder(len)
    \/ ReturnSplits

SpecDelauny == DelaunyInit /\ [][DelaunyNext]_vars

\* C27: with random_split=True a call that supplies a validation path is
\* rejected by the assertion, and a call whose path2val is the empty string
\* is accepted; in the accepted case the validation set is the 1840-element
\* part of a 7362/1840 split of the training set made with the seed 42.
C27_RandomSplitRejectsPath2Val ==
    (/\ splits_call.random_split
     /\ splits_call.pc \in {"asserted", "returned", "AssertionError"}) =>
        /\ splits_call.path2val.given # <<>> => splits_call.pc = "AssertionError"
        /\ splits_call.path2val.given = <<>> =>
              /\ splits_call.pc # "AssertionError"
              /\ splits_call.valid_dataset.kind = "Subset"
              /\ splits_call.valid_dataset.len = 1840
              /\ splits_call.valid_dataset.rest = 7362
              /\ splits_call.valid_dataset.seed = 42

-----------------------------------------------------------------------------
\* uutils.load_cluster_jobids_to: the job ids of the cluster managers read
\* from the environment.
\*
\* jobids_call holds: environ, a function from the names of the variables
\* that are set to their strings; host, whether its name has 'dgx' in it and
\* the pid; args, the four fields set on args, jobid as a python value since
\* it may end up an int or a str.

MaxPid == 2

EnvNames == {"SLURM_JOBID", "SLURM_ARRAY_TASK_ID", "CONDOR_JOB_ID", "PBS_JOBID"}
EnvValues == {<<"7">>, <<"1", "2">>, <<"3", ".", "s">>}
Environs == UNION {[names -> EnvValues] : names \in SUBSET EnvNames}
Pids == 1..MaxPid

IsDigit(ch) == \E n \in 0..9 : Digit(n) = ch
DigitValue(ch) == CHOOSE n \in 0..9 : Digit(n) = ch

\* Does int(string) return, for a string of digits, or raise ValueError.
is_int_literal(string) ==
    /\ Len(string) > 0
    /\ \A i \in 1..Len(string) : IsDigit(string[i])

RECURSIVE py_int(_)
py_int(string) ==
    IF Len(string) = 1 THEN DigitValue(string[1])
    ELSE 10 * py_int(SubSeq(string, 1, Len(string) - 1))
         + DigitValue(string[Len(string)])

\* args before the call: none of the four fields is there.
NoJobids ==
    [jobid |-> PyNone, slurm_jobid |-> 0, slurm_array_task_id |-> 0,
     condor_jobid |-> 0]

\* The body of if "SLURM_JOBID" in os.environ.
slurm_fields(a, value) ==
    [a EXCEPT !.slurm_jobid = py_int(value), !.jobid = PyInt(py_int(value))]

\* A mutation of condor_fields: args.jobid is left as it is.
condor_fields_without_jobid(a, value) ==
    [a EXCEPT !.condor_jobid = py_int(value)]

\* The body of if "CONDOR_JOB_ID" in os.environ.
condor_fields(a, value) ==
    [a EXCEPT !.condor_jobid = py_int(value), !.jobid = PyInt(py_int(value))]

\* The body of if "PBS_JOBID" in os.environ: the int, or the string itself
\* if it is not one.
pbs_fields(a, value) ==
    [a EXCEPT !.jobid = IF is_int_literal(value) THEN PyInt(py_int(value))
                        ELSE PyStr(value)]

\* f'{args.jobid}_pid_{os.getpid()}'
jobid_with_pid(jobid, pid) ==
    PyStr(py_str(jobid) \o <<"_", "p", "i", "d", "_">> \o str_int(pid))

IsSet(name) == name \in DOMAIN jobids_call.environ
Getenv(name) == jobids_call.environ[name]

ResetJobids ==
    /\ jobids_call.pc = "start"
    /\ jobids_call' =
          [jobids_call EXCEPT
              !.args = [jobid |-> PyInt(-1), slurm_jobid |-> -1,
                        slurm_array_task_id |-> -1, condor_jobid |-> -1],
              !.pc = "reset"]
    /\ UNCHANGED <<core_vars, to_json_call, pickable_call, log_run, splits_call>>

SlurmJobid ==
    /\ jobids_call.pc = "reset"
    /\ IsSet("SLURM_JOBID") => is_int_literal(Getenv("SLURM_JOBID"))
    /\ jobids_call' =
          [jobids_call EXCEPT
              !.args = IF IsSet("SLURM_JOBID")
                       THEN slurm_fields(jobids_call.args, Getenv("SLURM_JOBID"))
                       ELSE jobids_call.args,
              !.pc = "slurm"]
    /\ UNCHANGED <<core_vars, to_json_call, pickable_call, log_run, splits_call>>

SlurmArrayTaskId ==
    /\ jobids_call.pc = "slurm"
    /\ IsSet("SLURM_ARRAY_TASK_ID") => is_int_literal(Getenv("SLURM_ARRAY_TASK_ID"))
    /\ jobids_call' =
          [jobids_call EXCEPT
              !.args = IF IsSet("SLURM_ARRAY_TASK_ID")
                       THEN [jobids_call.args EXCEPT
                                !.slurm_array_task_id =
                                    py_int(Getenv("SLURM_ARRAY_TASK_ID"))]
                       ELSE jobids_call.args,
              !.pc = "array"]
    /\ UNCHANGED <<core_vars, to_json_call, pickable_call, log_run, splits_call>>

CondorJobId ==
    /\ jobids_call.pc = "array"
    /\ IsSet("CONDOR_JOB_ID") => is_int_literal(Getenv("CONDOR_JOB_ID"))
    /\ jobids_call' =
          [jobids_call EXCEPT
              !.args = IF IsSet("CONDOR_JOB_ID")
                       THEN condor_fields(jobids_call.args, Getenv("CONDOR_JOB_ID"))
                       ELSE jobids_call.args,
              !.pc = "condor"]
    /\ UNCHANGED <<core_vars, to_json_call, pickable_call, log_run, splits_call>>

\* int() of a variable of Slurm or Condor that is not a number.
JobidValueError ==
    /\ \/ /\ jobids_call.pc = "reset"
          /\ IsSet("SLURM_JOBID")
          /\ ~is_int_literal(Getenv("SLURM_JOBID"))
       \/ /\ jobids_call.pc = "slurm"
          /\ IsSet("SLURM_ARRAY_TASK_ID")
          /\ ~is_int_literal(Getenv("SLURM_ARRAY_TASK_ID"))
       \/ /\ jobids_call.pc = "array"
          /\ IsSet("CONDOR_JOB_ID")
          /\ ~is_int_literal(Getenv("CONDOR_JOB_ID"))
    /\ jobids_call' = [jobids_call EXCEPT !.pc = "ValueError"]
    /\ UNCHANGED <<core_vars, to_json_call, pickable_call, log_run, splits_call>>

PbsJobid ==
    /\ jobids_call.pc = "condor"
    /\ jobids_call' =
          [jobids_call EXCEPT
              !.args = IF IsSet("PBS_JOBID")
                       THEN pbs_fields(jobids_call.args, Getenv("PBS_JOBID"))
                       ELSE jobids_call.args,
              !.pc = "pbs"]
    /\ UNCHANGED <<core_vars, to_json_call, pickable_call, log_run, splits_call>>

DgxPid ==
    /\ jobids_call.pc = "pbs"
    /\ jobids_call' =
          [jobids_call EXCEPT
              !.args = IF jobids_call.host.dgx
                       THEN [jobids_call.args EXCEPT
                                !.jobid = jobid_with_pid(jobids_call.args.jobid,
                                                         jobids_call.host.pid)]
                       ELSE jobids_call.args,
              !.pc = "done"]
    /\ UNCHANGED <<core_vars, to_json_call, pickable_call, log_run, splits_call>>

JobidInit ==
    /\ jobids_call \in [environ : Environs, host : [dgx : BOOLEAN, pid : Pids],
                        args : {NoJobids}, pc : {"start"}]
    /\ SamplerUnused /\ LoaderUnused /\ DatasetUnused /\ SplitsUnused
    /\ JsonUnused /\ PickableUnused /\ LogUnused /\ DelaunyUnused

JobidNext ==
    \/ ResetJobids
    \/ SlurmJobid
    \/ SlurmArrayTaskId
    \/ CondorJobId
    \/ JobidValueError
    \/ PbsJobid
    \/ DgxPid

SpecJobids == JobidInit /\ [][JobidNext]_vars

\* The job id a variable gives: the number it spells.
IdOf(name) == py_int(Getenv(name))

\* C28: after load_cluster_jobids_to on a host that is not a dgx, whichever
\* of SLURM_JOBID, CONDOR_JOB_ID and PBS_JOBID are set, args.jobid is the PBS
\* job id if PBS_JOBID is set, else the Condor job id if CONDOR_JOB_ID is set,
\* else the Slurm job id if SLURM_JOBID is set, else -1; slurm_jobid,
\* slurm_array_task_id and condor_jobid are each -1 unless their own variable
\* is set, and its number then.
C28_JobidPriority ==
    (jobids_call.pc = "done" /\ ~jobids_call.host.dgx) =>
        LET args == jobids_call.args
        IN  /\ args.jobid =
                  IF IsSet("PBS_JOBID")
                  THEN (IF is_int_literal(Getenv("PBS_JOBID"))
                        THEN PyInt(IdOf("PBS_JOBID"))
                        ELSE PyStr(Getenv("PBS_JOBID")))
                  ELSE IF IsSet("CONDOR_JOB_ID") THEN PyInt(IdOf("CONDOR_JOB_ID"))
                  ELSE IF IsSet("SLURM_JOBID") THEN PyInt(IdOf("SLURM_JOBID"))
                  ELSE PyInt(-1)
            /\ args.slurm_jobid =
                  IF IsSet("SLURM_JOBID") THEN IdOf("SLURM_JOBID") ELSE -1
            /\ args.slurm_array_task_id =
                  IF IsSet("SLURM_ARRAY_TASK_ID")
                  THEN IdOf("SLURM_ARRAY_TASK_ID") ELSE -1
            /\ args.condor_jobid =
                  IF IsSet("CONDOR_JOB_ID") THEN IdOf("CONDOR_JOB_ID") ELSE -1

C28_Witness ==
    /\ jobids_call.pc = "done" /\ ~jobids_call.host.dgx
    /\ IsSet("SLURM_JOBID") /\ IsSet("CONDOR_JOB_ID") /\ ~IsSet("PBS_JOBID")
    /\ ~IsSet("SLURM_ARRAY_TASK_ID")
    /\ jobids_call.args.slurm_jobid = 7
    /\ jobids_call.args.jobid = PyInt(12)

====
